---- MODULE Spec2Model ----
(***************************************************************************)
(* A model of working/import_geojson.py: the import of one world's         *)
(* GeoJSON files (cells, burgs, routes, rivers, markers) into the          *)
(* maps_world table and the five feature tables.                           *)
(*                                                                         *)
(* The store is modelled as sets of rows; every conn.execute is one step,  *)
(* because db_manager.transaction() hands out a pooled connection          *)
(* (pool.acquire()) on which asyncpg commits each statement by itself.     *)
(***************************************************************************)
EXTENDS Integers, Sequences, FiniteSets, TLC

VARIABLES
  maps_world,    \* the rows of public.maps_world
  tables,        \* kind -> the rows of public.maps_<kind>
  artifacts,     \* directory -> the {world}_mapinfo.json files in it, by world name
  disk,          \* world name -> kind -> the file's contents, NoFile, or AnyFile
  pc,            \* where import_world stands
  world_name,    \* import_world's argument
  world_files,   \* find_world_files' result: the kinds found, in dict order
  map_metadata,  \* _build_map_metadata's result
  metadata_path, \* the directory the metadata file is written to
  existing,      \* create_world_entry: the row fetchrow returned
  world_id,      \* create_world_entry's result
  idx,           \* the position in world_files of the loop that is running
  features,      \* the ingestor's data.get("features", [])
  pos,           \* the ingestor's position in features
  rows,          \* the ingestor's counter
  total_rows,    \* import_world's counter
  error,         \* the exception import_world raised, "" when none
  imported,      \* the "Imported {rows} {file_type} features" log of this run
  before,        \* the ingested kind's table when its ingestor began
  seen,          \* what _build_map_metadata has read: scales, drawings, attributes
  previous,      \* what the run before this one left: its input and its results
  peer,          \* a second process, while it is suspended: its --world argument
                 \* and its import_world; and the --world of the one that runs
  db_manager,    \* the DatabaseManager: its _connection_pool (none, open or
                 \* closed) and the number of connections acquired from it
  main           \* where main stands; "none" while import_world is called by
                 \* a caller that keeps a pool connected

vars == <<maps_world, tables, artifacts, disk, pc, world_name, world_files,
          map_metadata, metadata_path, existing, world_id, idx, features, pos,
          rows, total_rows, error, imported, before, seen, previous, peer,
          db_manager, main>>

store == <<maps_world, tables>>

(***************************************************************************)
(* Bounds of the model.                                                    *)
(***************************************************************************)
MaxFeatures == 2      \* the longest feature list a file holds
MaxLocalId == 2       \* local feature ids are 1..MaxLocalId

(***************************************************************************)
(* JSON values as the code meets them.  A value is a record [t, v]:        *)
(* absent key, null, a number, a string holding a number, any other text.  *)
(***************************************************************************)
Absent == [t |-> "absent", v |-> 0]
Null == [t |-> "null", v |-> 0]
Text == [t |-> "text", v |-> 0]
Num(n) == [t |-> "num", v |-> n]
NumStr(n) == [t |-> "numstr", v |-> n]
Raised == [t |-> "raised", v |-> 0]
None == [t |-> "none", v |-> 0]

\* dict.get(key, default): the default only when the key is absent
Get(value, default) == IF value = Absent THEN default ELSE value

\* dict.get(key): None when the key is absent (JSON null is None as well)
GetNone(value) == IF value \in {Absent, Null} THEN None ELSE value

\* int(x) and float(x) on a decoded JSON value: a number or a numeric string
\* converts, None (TypeError) and any other text (ValueError) raise
ToNumber(value) ==
  IF value.t \in {"num", "numstr"} THEN Num(value.v) ELSE Raised

\* float(p.get(key, 0.0)) if p.get(key) is not None else None
OptFloat(value) ==
  IF GetNone(value) = None THEN None ELSE ToNumber(Get(value, Num(0)))

\* int(p.get(key, 0))
IntDefault(value) == ToNumber(Get(value, Num(0)))

\* _safe_str(p.get(key)): None stays None, anything else becomes its text
SafeStr(value) ==
  IF GetNone(value) = None THEN None
  ELSE IF value.t = "num" THEN NumStr(value.v) ELSE value

(***************************************************************************)
(* Kinds, in the order of find_world_files' type_patterns.                 *)
(***************************************************************************)
\* a variant in the order of the names, as a sorted dict would give them
KindsByName == <<"burgs", "cells", "markers", "rivers", "routes">>

Kinds == <<"cells", "burgs", "routes", "rivers", "markers">>

KindSet == {Kinds[i] : i \in 1..Len(Kinds)}

\* A GeoJSON file as _read_geojson meets it: unreadable (json.load raises) or a
\* document with metadata.scale.meters_per_pixel and a feature list.  NoFile and
\* AnyFile are the two other things disk can say of a path: that nothing is
\* there, and that the model does not track what is there (the environment
\* decides at each access).
File(ok, scale, feats) ==
  [tag |-> "file", ok |-> ok, scale |-> scale, features |-> feats]

NoFile == [tag |-> "none", ok |-> FALSE, scale |-> Absent, features |-> <<>>]
AnyFile == [tag |-> "any", ok |-> FALSE, scale |-> Absent, features |-> <<>>]
Unreadable == File(FALSE, Absent, <<>>)

\* One feature: its "properties" member (a dict, absent, or null) and, of the
\* dict, the local id, one numeric attribute, one text attribute; and its
\* geometry.  The numeric attribute stands for population (cells, burgs),
\* feature (routes), discharge (rivers), x_px (markers); the text attribute
\* for type (cells, markers) and name (burgs, routes, rivers).
Feature(id, num, txt, geom) ==
  [bag |-> "dict", id |-> id, num |-> num, txt |-> txt, geom |-> geom]

NoBag == [bag |-> "absent", id |-> Absent, num |-> Absent, txt |-> Absent, geom |-> 1]
NullBag == [bag |-> "null", id |-> Absent, num |-> Absent, txt |-> Absent, geom |-> 1]

LocalIds == 1..MaxLocalId

(***************************************************************************)
(* The ingestors' argument lists.                                          *)
(***************************************************************************)
\* the kinds whose numeric attribute is int(p.get(key, 0)); the others'
\* is float(p.get(key, 0.0)) if p.get(key) is not None else None
IntKinds == {"cells", "burgs", "routes"}

NumColumn(kind, value) ==
  IF kind \in IntKinds THEN IntDefault(value) ELSE OptFloat(value)

\* The arguments of one conn.execute, or Raised when building them raises:
\* p is None (AttributeError on p.get), int(p.get("id")) on a missing or
\* non-numeric id, or a numeric column that does not convert.
Arguments(kind, f) ==
  LET lid == ToNumber(GetNone(f.id))
      num == NumColumn(kind, f.num)
  IN  IF f.bag = "null" \/ lid.t = "raised" \/ num.t = "raised" THEN Raised
      ELSE [t |-> "args", lid |-> lid.v, num |-> num, txt |-> SafeStr(f.txt),
            geom |-> f.geom]

(***************************************************************************)
(* The store.                                                              *)
(***************************************************************************)
\* str(uuid.uuid4()): an identifier no row of the table carries
Uuid4(table) == CHOOSE n \in 1..(Cardinality(table) + 1) : \A r \in table : r.id # n

\* a variant that looks for the conflict on the local id alone, whatever the
\* world, as the ON CONFLICT (id) of afmg_geojson_importer.py
ConflictsOnLocalId(table, wid, lid) == {r \in table : r.lid = lid}

\* a variant that looks for the conflict on the row's own id, as ON CONFLICT (id)
ConflictsOnId(table, wid, lid) == {r \in table : r.id = Uuid4(table)}

Conflicts(table, wid, lid) == {r \in table : r.world_id = wid /\ r.lid = lid}

\* a variant whose SET list leaves geom out
DoUpdateKeepsGeom(r, args) == [r EXCEPT !.num = args.num, !.txt = args.txt]

\* ON CONFLICT (world_id, <kind>_id) DO UPDATE SET every attribute and geom
DoUpdate(r, args) ==
  [r EXCEPT !.num = args.num, !.txt = args.txt, !.geom = args.geom]

\* a variant without the ON CONFLICT clause, on a table without the constraint
UpsertInsertsOnly(table, wid, args) ==
  table \cup {[id |-> Uuid4(table), world_id |-> wid, lid |-> args.lid,
               num |-> args.num, txt |-> args.txt, geom |-> args.geom]}

\* a variant that replaces the row it meets by the row it was to insert, new
\* uuid included, as a DELETE followed by the INSERT
UpsertReplacesRow(table, wid, args) ==
  (table \ Conflicts(table, wid, args.lid))
    \cup {[id |-> Uuid4(table), world_id |-> wid, lid |-> args.lid,
           num |-> args.num, txt |-> args.txt, geom |-> args.geom]}

\* a variant that first deletes the rows the world has in the table
UpsertAfterDelete(table, wid, args) ==
  {r \in table : r.world_id # wid}
    \cup {[id |-> Uuid4(table), world_id |-> wid, lid |-> args.lid,
           num |-> args.num, txt |-> args.txt, geom |-> args.geom]}

\* a variant that keeps the row it meets, as ON CONFLICT ... DO NOTHING
UpsertDoNothing(table, wid, args) ==
  IF Conflicts(table, wid, args.lid) # {} THEN table
  ELSE table \cup {[id |-> Uuid4(table), world_id |-> wid, lid |-> args.lid,
                    num |-> args.num, txt |-> args.txt, geom |-> args.geom]}

\* INSERT ... ON CONFLICT ... DO UPDATE: one statement, committed as it ends
Upsert(table, wid, args) ==
  LET hit == Conflicts(table, wid, args.lid) IN
  IF hit # {}
  THEN (table \ hit) \cup {DoUpdate(r, args) : r \in hit}
  ELSE table \cup {[id |-> Uuid4(table), world_id |-> wid, lid |-> args.lid,
                    num |-> args.num, txt |-> args.txt, geom |-> args.geom]}

\* an ingestor's loop over a feature list, from its first statement to its last
RECURSIVE IngestAll(_, _, _, _)
IngestAll(table, wid, k, feats) ==
  IF feats = <<>> THEN table
  ELSE IngestAll(Upsert(table, wid, Arguments(k, Head(feats))), wid, k, Tail(feats))

\* a variant that compares the wrong column
SelectWorldByDescription(name) == {r \in maps_world : r.description = name}

\* SELECT id FROM maps_world WHERE name = $1
SelectWorld(name) == {r \in maps_world : r.name = name}

Description(name) == <<"Imported world map: ", name>>

\* a variant whose SET list leaves bounds out
UpdateWorldKeepsBounds(r, name, md) ==
  [r EXCEPT !.description = Description(name),
            !.width_pixels = md.width_pixels, !.height_pixels = md.height_pixels,
            !.meters_per_pixel = md.meters_per_pixel]

\* a variant whose SET list leaves meters_per_pixel out
UpdateWorldKeepsScale(r, name, md) ==
  [r EXCEPT !.description = Description(name), !.bounds = md.bounds,
            !.width_pixels = md.width_pixels, !.height_pixels = md.height_pixels]

\* a variant whose SET list names is_active as well
UpdateWorldActivates(r, name, md) ==
  [r EXCEPT !.description = Description(name), !.bounds = md.bounds,
            !.width_pixels = md.width_pixels, !.height_pixels = md.height_pixels,
            !.meters_per_pixel = md.meters_per_pixel, !.is_active = TRUE]

\* UPDATE maps_world SET description, bounds, width_pixels, height_pixels,
\* meters_per_pixel, updated_at WHERE id = $1
UpdateWorld(r, name, md) ==
  [r EXCEPT !.description = Description(name), !.bounds = md.bounds,
            !.width_pixels = md.width_pixels, !.height_pixels = md.height_pixels,
            !.meters_per_pixel = md.meters_per_pixel]

\* INSERT INTO maps_world (...) VALUES (..., True)
NewWorld(id, name, md) ==
  [id |-> id, name |-> name, description |-> Description(name),
   bounds |-> md.bounds, width_pixels |-> md.width_pixels,
   height_pixels |-> md.height_pixels, meters_per_pixel |-> md.meters_per_pixel,
   is_active |-> TRUE]
(***************************************************************************)
(* Metadata reconciliation.                                                *)
(***************************************************************************)
\* An SVG attribute is Absent, Text (no leading number) or NumStr(h): a string
\* that starts with the number h/2 (h counts halves, so that rounding shows).
\* _parse_numeric: the leading number, or None
ParseNumeric(value) == IF value.t = "numstr" THEN Num(value.v) ELSE None

\* int(round(x)) of x = h/2: Python rounds a half to the even neighbour
Round(h) ==
  IF h % 2 = 0 THEN h \div 2
  ELSE LET n == (h - 1) \div 2 IN IF n % 2 = 0 THEN n ELSE n + 1

\* A drawing: whether ET.parse succeeds, its width and height attributes, its
\* viewBox as the number of whitespace-separated parts with parts 3 and 4.
Svg(parses, width, height, parts, vbw, vbh) ==
  [parses |-> parses, width |-> width, height |-> height,
   viewBox |-> [parts |-> parts, w |-> vbw, h |-> vbh]]

\* inkscape: whether which() finds it, whether both queries run, what they print
Inkscape(found, runs, width, height) ==
  [found |-> found, runs |-> runs, width |-> width, height |-> height]

NoSvg == Svg(FALSE, Absent, Absent, 0, Absent, Absent)
NoInkscape == Inkscape(FALSE, FALSE, Absent, Absent)

\* a variant that reads a four-part viewBox before the declared attributes
ExtractSvgDimensionsBoxFirst(svg, ink) ==
  LET box == svg.viewBox.parts = 4
      w1 == ParseNumeric(IF box THEN svg.viewBox.w ELSE svg.width)
      h1 == ParseNumeric(IF box THEN svg.viewBox.h ELSE svg.height)
      fallback == w1 = None \/ h1 = None
      w2 == IF fallback THEN ParseNumeric(ink.width) ELSE w1
      h2 == IF fallback THEN ParseNumeric(ink.height) ELSE h1
  IN  IF ~svg.parses THEN Raised
      ELSE IF fallback /\ (~ink.found \/ ~ink.runs) THEN Raised
      ELSE IF w2 = None \/ h2 = None THEN Raised
      ELSE [t |-> "dims", width |-> Round(w2.v), height |-> Round(h2.v)]

\* _extract_svg_dimensions: declared attributes, else the viewBox, else inkscape
ExtractSvgDimensions(svg, ink) ==
  LET w0 == ParseNumeric(svg.width)
      h0 == ParseNumeric(svg.height)
      box == (w0 = None \/ h0 = None) /\ svg.viewBox.parts = 4
      w1 == IF box THEN ParseNumeric(svg.viewBox.w) ELSE w0
      h1 == IF box THEN ParseNumeric(svg.viewBox.h) ELSE h0
      fallback == w1 = None \/ h1 = None
      w2 == IF fallback THEN ParseNumeric(ink.width) ELSE w1
      h2 == IF fallback THEN ParseNumeric(ink.height) ELSE h1
  IN  IF ~svg.parses THEN Raised
      ELSE IF fallback /\ (~ink.found \/ ~ink.runs) THEN Raised
      ELSE IF w2 = None \/ h2 = None THEN Raised
      ELSE [t |-> "dims", width |-> Round(w2.v), height |-> Round(h2.v)]

\* The directories searched: the files' directory and its parent
Dirs == {"dir", "parent"}

\* preferred_names, in order: {world}_states.svg, {world}_map.svg, {world}.svg
PreferredNames == <<"_states", "_map", "">>

DirOrders == {o \in [1..2 -> Dirs] : o[1] # o[2]}

\* _find_world_svg: the directories in the set's iteration order, within each
\* the names in order of preference; the first that exists, or None
FindWorldSvg(exists, order) ==
  LET at(i) == <<order[((i - 1) \div Len(PreferredNames)) + 1],
                 PreferredNames[((i - 1) % Len(PreferredNames)) + 1]>>
      hits == {i \in 1..(Len(order) * Len(PreferredNames)) : at(i) \in exists}
  IN  IF hits = {} THEN None
      ELSE [t |-> "path", dir |-> at(CHOOSE i \in hits : \A j \in hits : i <= j)[1],
            name |-> at(CHOOSE i \in hits : \A j \in hits : i <= j)[2]]

\* a variant that takes a JSON number only, and no string that holds one
ScaleOfNumbersOnly(file) ==
  IF file.ok /\ file.scale.t = "num" THEN file.scale ELSE None

\* One round of _extract_scale_info's loop: the file's meters_per_pixel as a
\* float, or None when the file is unreadable, holds none, or holds no number
ScaleOf(file) ==
  LET mpp == GetNone(file.scale) IN
  IF ~file.ok \/ mpp = None THEN None
  ELSE IF ToNumber(mpp).t = "raised" THEN None ELSE ToNumber(mpp)

\* a variant with south below the origin counted positive
BoundsSouthPositive(width_pixels, height_pixels, meters_per_pixel) ==
  [north |-> 0, south |-> height_pixels * meters_per_pixel,
   east |-> width_pixels * meters_per_pixel, west |-> 0,
   width_pixels |-> width_pixels, height_pixels |-> height_pixels,
   meters_per_pixel |-> meters_per_pixel]

\* bounds, with (0,0) at the top-left corner
Bounds(width_pixels, height_pixels, meters_per_pixel) ==
  [north |-> 0, south |-> (-height_pixels) * meters_per_pixel,
   east |-> width_pixels * meters_per_pixel, west |-> 0,
   width_pixels |-> width_pixels, height_pixels |-> height_pixels,
   meters_per_pixel |-> meters_per_pixel]

\* the metadata dict of _build_map_metadata (generated_at left out)
Metadata(name, svg_path, dims, meters_per_pixel) ==
  [world |-> name, source_svg |-> <<svg_path.dir, svg_path.name>>,
   width_pixels |-> dims.width, height_pixels |-> dims.height,
   meters_per_pixel |-> meters_per_pixel,
   bounds |-> Bounds(dims.width, dims.height, meters_per_pixel)]

NoMetadata ==
  [world |-> "", source_svg |-> <<"", "">>, width_pixels |-> 0, height_pixels |-> 0,
   meters_per_pixel |-> 0, bounds |-> Bounds(0, 0, 0)]
(***************************************************************************)
(* The environment.  An action that reads the environment takes env, the   *)
(* sets its answers are drawn from: a specification fixes them.            *)
(*   names     world names import_world is called with                     *)
(*   presents  sets of kinds whose files exist                             *)
(*   scans     files as _extract_scale_info reads them                     *)
(*   files     files as an ingestor reads them                             *)
(*   drawings  sets of <<directory, name>> of the drawings that exist      *)
(*   svgs, inks  drawings' attributes and inkscape's answers               *)
(*   writes    whether the metadata file can be written                    *)
(*   remember  whether the run's log is kept, and its results for the next *)
(***************************************************************************)
Names == {"w1", "w2"}

NoRow == [id |-> 0]

NoRun ==
  [ran |-> FALSE, name |-> "", error |-> "", imported |-> <<>>, world_id |-> 0,
   keys |-> [k \in KindSet |-> {}], sizes |-> [k \in KindSet |-> 0], worlds |-> 0]

NothingSeen ==
  [files |-> <<>>, mpp |-> None, drawings |-> {}, order |-> <<>>,
   svg |-> NoSvg, ink |-> NoInkscape]

Keys(table) == {<<r.world_id, r.lid>> : r \in table}

\* what is known of the run that just ended, when a new one begins
ThisRun ==
  [ran |-> pc # "idle", name |-> world_name, error |-> error, imported |-> imported,
   world_id |-> world_id, keys |-> [k \in KindSet |-> Keys(tables[k])],
   sizes |-> [k \in KindSet |-> Cardinality(tables[k])],
   worlds |-> Cardinality(maps_world)]

\* a variant that reports every kind as found, whatever exists
FoundEveryKind(name, env) == {KindSet}

\* file_path.exists() for every kind: the sets of kinds that may be found
Found(name, env) ==
  {P \in env.presents :
     \A k \in KindSet : /\ disk[name][k].tag = "file" => k \in P
                        /\ disk[name][k].tag = "none" => k \notin P}

\* _read_geojson(path): what the read may return
Reads(name, kind, choices) ==
  IF disk[name][kind].tag = "any" THEN choices ELSE {disk[name][kind]}

kind == world_files[idx]

\* DatabaseManager after __init__ and after connect()
NotConnected == [pool |-> "none", acquired |-> 0]
Connected == [pool |-> "open", acquired |-> 0]

\* async with db_manager.transaction() as conn: pool.acquire() on entry, the
\* release on exit, by return or by exception
Acquire == [db_manager EXCEPT !.acquired = @ + 1]
Release == [db_manager EXCEPT !.acquired = @ - 1]

\* import_world's own state: what a process keeps while another one runs
Local ==
  [pc |-> pc, world_name |-> world_name, world_files |-> world_files,
   map_metadata |-> map_metadata, metadata_path |-> metadata_path,
   existing |-> existing, world_id |-> world_id, idx |-> idx,
   features |-> features, pos |-> pos, rows |-> rows, total_rows |-> total_rows,
   error |-> error, imported |-> imported, before |-> before, seen |-> seen,
   previous |-> previous, db_manager |-> db_manager, main |-> main]

\* a process that has not called import_world yet
NotStarted ==
  [pc |-> "idle", world_name |-> "", world_files |-> <<>>,
   map_metadata |-> NoMetadata, metadata_path |-> "", existing |-> NoRow,
   world_id |-> 0, idx |-> 1, features |-> <<>>, pos |-> 1, rows |-> 0,
   total_rows |-> 0, error |-> "", imported |-> <<>>, before |-> {},
   seen |-> NothingSeen, previous |-> NoRun, db_manager |-> Connected,
   main |-> "none"]

NoPeer == [running |-> "", world |-> "", local |-> NotStarted]

Raise(name) ==
  /\ pc' = "raised"
  /\ error' = name

(***************************************************************************)
(* import_world                                                            *)
(***************************************************************************)
\* a variant that goes on to the metadata when no file was found
AfterFindNoReturn(found) == "scale"

\* if not world_files: return
AfterFind(found) == IF found = {} THEN "returned" ELSE "scale"

\* a variant that creates the world entry before the metadata file is written
ThenWorldFirst(phase) ==
  CASE phase = "svg" -> "select"
    [] phase = "created" -> "write"
    [] phase = "write" -> "ingest"

\* The calls of import_world in order: _build_map_metadata, then
\* _write_metadata_file, then create_world_entry, then the ingestors
Then(phase) ==
  CASE phase = "svg" -> "write"
    [] phase = "write" -> "select"
    [] phase = "created" -> "ingest"

\* find_world_files, and the return when it finds nothing
FindWorldFiles(env) ==
  /\ pc \in {"idle", "returned", "raised"}
  /\ main \in {"none", "connected"}
  /\ db_manager.pool = "open"
  /\ \E n \in env.names : \E P \in Found(n, env) :
       /\ world_name' = n
       /\ world_files' = SelectSeq(Kinds, LAMBDA k : k \in P)
       /\ pc' = AfterFind(P)
  /\ previous' = IF env.remember THEN ThisRun ELSE previous
  /\ idx' = 1
  /\ map_metadata' = NoMetadata
  /\ metadata_path' = ""
  /\ existing' = NoRow
  /\ world_id' = 0
  /\ features' = <<>>
  /\ pos' = 1
  /\ rows' = 0
  /\ total_rows' = 0
  /\ error' = ""
  /\ imported' = <<>>
  /\ before' = {}
  /\ seen' = NothingSeen
  /\ main' = IF main = "connected" THEN "import_world" ELSE main
  /\ UNCHANGED <<db_manager, peer, maps_world, tables, artifacts, disk>>

\* _extract_scale_info: one file of the loop
ScanScale(env) ==
  /\ pc = "scale"
  /\ idx <= Len(world_files)
  /\ \E file \in Reads(world_name, kind, env.scans) :
       /\ seen' = [seen EXCEPT !.files = Append(@, [ok |-> file.ok, scale |-> file.scale]),
                               !.mpp = ScaleOf(file)]
       /\ IF ScaleOf(file) = None
          THEN pc' = pc /\ idx' = idx + 1
          ELSE pc' = "svg" /\ idx' = idx
  /\ UNCHANGED <<db_manager, main, peer, maps_world, tables, artifacts, disk, world_name, world_files,
                 map_metadata, metadata_path, existing, world_id, features, pos,
                 rows, total_rows, error, imported, before, previous>>

\* _extract_scale_info returns None: _build_map_metadata raises
MissingScale ==
  /\ pc = "scale"
  /\ idx > Len(world_files)
  /\ Raise("MissingScale")
  /\ UNCHANGED <<db_manager, main, peer, maps_world, tables, artifacts, disk, world_name, world_files,
                 map_metadata, metadata_path, existing, world_id, idx, features,
                 pos, rows, total_rows, imported, before, seen, previous>>

\* _find_world_svg finds no drawing
MissingDrawing(env) ==
  /\ pc = "svg"
  /\ \E exists \in env.drawings : \E order \in DirOrders :
       /\ FindWorldSvg(exists, order) = None
       /\ seen' = [seen EXCEPT !.drawings = exists, !.order = order]
  /\ Raise("MissingDrawing")
  /\ UNCHANGED <<db_manager, main, peer, maps_world, tables, artifacts, disk, world_name, world_files,
                 map_metadata, metadata_path, existing, world_id, idx, features,
                 pos, rows, total_rows, imported, before, previous>>

\* whether _extract_svg_dimensions gets as far as asking inkscape
AsksInkscape(svg) ==
  LET w0 == ParseNumeric(svg.width)
      h0 == ParseNumeric(svg.height)
      box == (w0 = None \/ h0 = None) /\ svg.viewBox.parts = 4
  IN  /\ svg.parses
      /\ IF box THEN ParseNumeric(svg.viewBox.w) = None \/ ParseNumeric(svg.viewBox.h) = None
         ELSE w0 = None \/ h0 = None

\* the rest of _build_map_metadata: the drawing, its dimensions, the bounds
BuildMapMetadata(env) ==
  /\ pc = "svg"
  /\ \E exists \in env.drawings : \E order \in DirOrders : \E svg \in env.svgs :
     \E ink \in IF AsksInkscape(svg) THEN env.inks ELSE {NoInkscape} :
       LET svg_path == FindWorldSvg(exists, order)
           dims == ExtractSvgDimensions(svg, ink)
       IN  /\ svg_path # None
           /\ seen' = [seen EXCEPT !.drawings = exists, !.order = order,
                                   !.svg = svg, !.ink = ink]
           /\ IF dims.t = "raised"
              THEN /\ Raise("UnresolvableDimensions")
                   /\ UNCHANGED <<map_metadata, metadata_path>>
              ELSE /\ map_metadata' = Metadata(world_name, svg_path, dims, seen.mpp.v)
                   /\ metadata_path' = svg_path.dir
                   /\ pc' = Then("svg")
                   /\ error' = error
  /\ UNCHANGED <<db_manager, main, peer, maps_world, tables, artifacts, disk, world_name, world_files,
                 existing, world_id, idx, features, pos, rows, total_rows,
                 imported, before, previous>>

\* _write_metadata_file
WriteMetadataFile(env) ==
  /\ pc = "write"
  /\ \E ok \in env.writes :
       IF ok
       THEN /\ artifacts' = [artifacts EXCEPT ![metadata_path][world_name] = map_metadata]
            /\ pc' = Then("write")
            /\ error' = error
       ELSE /\ Raise("MetadataPersistFailure")
            /\ artifacts' = artifacts
  /\ seen' = NothingSeen
  /\ UNCHANGED <<db_manager, main, peer, maps_world, tables, disk, world_name, world_files, map_metadata,
                 metadata_path, existing, world_id, idx, features, pos, rows,
                 total_rows, imported, before, previous>>
(***************************************************************************)
(* create_world_entry                                                      *)
(***************************************************************************)
\* conn.fetchrow(select_sql, world_name): a row of that name, or None
FetchWorld ==
  /\ pc = "select"
  /\ IF SelectWorld(world_name) = {}
     THEN existing' = NoRow
     ELSE existing' \in SelectWorld(world_name)
  /\ pc' = "execute"
  /\ db_manager' = Acquire
  /\ UNCHANGED <<main, peer, maps_world, tables, artifacts, disk, world_name, world_files,
                 map_metadata, metadata_path, world_id, idx, features, pos, rows,
                 total_rows, error, imported, before, seen, previous>>

\* the world table after create_world_entry's statement
WorldWritten(world, row, name, md) ==
  IF row # NoRow
  THEN {IF r.id = row.id THEN UpdateWorld(r, name, md) ELSE r : r \in world}
  ELSE world \cup {NewWorld(Uuid4(world), name, md)}

\* a variant that returns a new uuid whether it inserted or updated
ExecuteWorldNewId ==
  /\ pc = "execute"
  /\ world_id' = Uuid4(maps_world)
  /\ maps_world' = WorldWritten(maps_world, existing, world_name, map_metadata)
  /\ pc' = "created"
  /\ UNCHANGED <<db_manager, main, peer, tables, artifacts, disk, world_name, world_files, map_metadata,
                 metadata_path, existing, idx, features, pos, rows, total_rows,
                 error, imported, before, seen, previous>>

\* conn.execute(update_sql, ...) when a row was found, else
\* conn.execute(insert_sql, ...) under a new uuid
ExecuteWorld ==
  /\ pc = "execute"
  /\ world_id' = IF existing # NoRow THEN existing.id ELSE Uuid4(maps_world)
  /\ maps_world' = WorldWritten(maps_world, existing, world_name, map_metadata)
  /\ pc' = "created"
  /\ UNCHANGED <<db_manager, main, peer, tables, artifacts, disk, world_name, world_files, map_metadata,
                 metadata_path, existing, idx, features, pos, rows, total_rows,
                 error, imported, before, seen, previous>>

\* return world_id: the connection is released, import_world's loop begins
ReturnWorld ==
  /\ pc = "created"
  /\ pc' = Then("created")
  /\ idx' = 1
  /\ existing' = NoRow
  /\ db_manager' = Release
  /\ UNCHANGED <<main, peer, maps_world, tables, artifacts, disk, world_name, world_files,
                 map_metadata, metadata_path, world_id, features, pos, rows,
                 total_rows, error, imported, before, seen, previous>>

(***************************************************************************)
(* ingest_cells, ingest_burgs, ingest_routes, ingest_rivers, ingest_markers*)
(***************************************************************************)
\* import_functions[file_type](file_path, world_id) begins: _read_geojson
OpenFile(env) ==
  /\ pc = "ingest"
  /\ idx <= Len(world_files)
  /\ \E file \in Reads(world_name, kind, env.files) :
       IF file.ok
       THEN /\ features' = file.features
            /\ pc' = "features"
            /\ error' = error
            /\ db_manager' = Acquire
       ELSE /\ Raise("InputReadFailure")
            /\ features' = features
            /\ db_manager' = db_manager
  /\ pos' = 1
  /\ rows' = 0
  /\ before' = tables[kind]
  /\ UNCHANGED <<main, peer, maps_world, tables, artifacts, disk, world_name, world_files,
                 map_metadata, metadata_path, existing, world_id, idx, total_rows,
                 imported, seen, previous>>

\* a variant that counts a feature only when its statement inserted a row
ExecuteFeatureCountsInserts ==
  /\ pc = "features"
  /\ pos <= Len(features)
  /\ Arguments(kind, features[pos]).t # "raised"
  /\ tables' = [tables EXCEPT ![kind] = Upsert(@, world_id, Arguments(kind, features[pos]))]
  /\ pos' = pos + 1
  /\ rows' = IF Conflicts(tables[kind], world_id, Arguments(kind, features[pos]).lid) = {}
             THEN rows + 1 ELSE rows
  /\ UNCHANGED <<db_manager, main, peer, maps_world, artifacts, disk, pc, world_name, world_files,
                 map_metadata, metadata_path, existing, world_id, idx, features,
                 total_rows, error, imported, before, seen, previous>>

\* one round of the ingestor's loop: conn.execute(insert_sql, ...); rows += 1
ExecuteFeature ==
  /\ pc = "features"
  /\ pos <= Len(features)
  /\ Arguments(kind, features[pos]).t # "raised"
  /\ tables' = [tables EXCEPT ![kind] = Upsert(@, world_id, Arguments(kind, features[pos]))]
  /\ pos' = pos + 1
  /\ rows' = rows + 1
  /\ UNCHANGED <<db_manager, main, peer, maps_world, artifacts, disk, pc, world_name, world_files,
                 map_metadata, metadata_path, existing, world_id, idx, features,
                 total_rows, error, imported, before, seen, previous>>

\* the exception a feature's arguments raise
FeatureError(k, f) ==
  IF f.bag = "null" THEN "NullProperties"
  ELSE IF ToNumber(GetNone(f.id)).t = "raised" THEN "MissingLocalId"
  ELSE "BadAttribute"

\* a variant that logs the feature's error and goes on with the next feature
FeatureSkipped ==
  /\ pc = "features"
  /\ pos <= Len(features)
  /\ Arguments(kind, features[pos]).t = "raised"
  /\ pos' = pos + 1
  /\ UNCHANGED <<db_manager, main, peer, maps_world, tables, artifacts, disk, pc, world_name, world_files,
                 map_metadata, metadata_path, existing, world_id, idx, features,
                 rows, total_rows, error, imported, before, seen, previous>>

\* building the arguments raises: the ingestor ends, import_world logs and
\* re-raises; what the earlier rounds executed stays
FeatureRaises ==
  /\ pc = "features"
  /\ pos <= Len(features)
  /\ Arguments(kind, features[pos]).t = "raised"
  /\ Raise(FeatureError(kind, features[pos]))
  /\ db_manager' = Release
  /\ UNCHANGED <<main, peer, maps_world, tables, artifacts, disk, world_name, world_files,
                 map_metadata, metadata_path, existing, world_id, idx, features,
                 pos, rows, total_rows, imported, before, seen, previous>>

\* return rows; total_rows += rows; the "Imported ..." log line
ReturnRows(env) ==
  /\ pc = "features"
  /\ pos > Len(features)
  /\ total_rows' = total_rows + rows
  /\ imported' = IF env.remember THEN Append(imported, <<kind, rows>>) ELSE imported
  /\ idx' = idx + 1
  /\ pc' = "ingest"
  /\ before' = {}
  /\ db_manager' = Release
  /\ UNCHANGED <<main, peer, maps_world, tables, artifacts, disk, world_name, world_files,
                 map_metadata, metadata_path, existing, world_id, features, pos,
                 rows, error, seen, previous>>

\* the loop over world_files ends: import_world returns
Finish ==
  /\ pc = "ingest"
  /\ idx > Len(world_files)
  /\ pc' = "returned"
  /\ UNCHANGED <<db_manager, main, peer, maps_world, tables, artifacts, disk, world_name, world_files,
                 map_metadata, metadata_path, existing, world_id, idx, features,
                 pos, rows, total_rows, error, imported, before, seen, previous>>

(***************************************************************************)
(* main                                                                    *)
(***************************************************************************)
\* asyncio.run(main()): a process begins, db_manager = DatabaseManager(url)
Main ==
  /\ main = "exited"
  /\ main' = "start"
  /\ db_manager' = NotConnected
  /\ pc' = "idle"
  /\ error' = ""
  /\ UNCHANGED <<peer, maps_world, tables, artifacts, disk, world_name, world_files,
                 map_metadata, metadata_path, existing, world_id, idx, features,
                 pos, rows, total_rows, imported, before, seen, previous>>

\* await db_manager.connect(): the pool is created, or create_pool raises
Connect ==
  /\ main = "start"
  /\ \E ok \in BOOLEAN :
       IF ok
       THEN /\ db_manager' = Connected
            /\ main' = "connected"
            /\ error' = error
       ELSE /\ db_manager' = db_manager
            /\ main' = "except"
            /\ error' = "ConnectFailure"
  /\ UNCHANGED <<peer, maps_world, tables, artifacts, disk, world_name, world_files,
                 map_metadata, metadata_path, existing, world_id, idx, features,
                 pos, rows, total_rows, imported, before, seen, previous, pc>>

\* await import_world(...) returns: the try block ends
ImportReturns ==
  /\ main = "import_world"
  /\ pc = "returned"
  /\ main' = "finally"
  /\ UNCHANGED <<peer, maps_world, tables, artifacts, disk, world_name, world_files,
                 map_metadata, metadata_path, existing, world_id, idx, features,
                 pos, rows, total_rows, imported, before, seen, previous, pc, error,
                 db_manager>>

\* a variant that leaves the process at once, as os._exit(1): no finally
ExceptExitsAtOnce ==
  /\ \/ main = "except"
     \/ main = "import_world" /\ pc = "raised"
  /\ main' = "exited"
  /\ UNCHANGED <<peer, maps_world, tables, artifacts, disk, world_name, world_files,
                 map_metadata, metadata_path, existing, world_id, idx, features,
                 pos, rows, total_rows, imported, before, seen, previous, pc, error,
                 db_manager>>

\* except Exception: logger.error(...); sys.exit(1), which raises SystemExit
\* through the finally clause
Except ==
  /\ \/ main = "except"
     \/ main = "import_world" /\ pc = "raised"
  /\ main' = "finally"
  /\ UNCHANGED <<peer, maps_world, tables, artifacts, disk, world_name, world_files,
                 map_metadata, metadata_path, existing, world_id, idx, features,
                 pos, rows, total_rows, imported, before, seen, previous, pc, error,
                 db_manager>>

\* finally: await db_manager.close(), which closes the pool if there is one;
\* then the process ends
Close ==
  /\ main = "finally"
  /\ db_manager' = IF db_manager.pool = "open"
                   THEN [db_manager EXCEPT !.pool = "closed"] ELSE db_manager
  /\ main' = "exited"
  /\ UNCHANGED <<peer, maps_world, tables, artifacts, disk, world_name, world_files,
                 map_metadata, metadata_path, existing, world_id, idx, features,
                 pos, rows, total_rows, imported, before, seen, previous, pc, error>>

(***************************************************************************)
(* Two processes: main() runs in each, over one store.                     *)
(***************************************************************************)
\* The process that runs is suspended at an await or between two statements
\* and the other one goes on: each keeps its own import_world, the store, the
\* metadata files and the input files are the same for both.
Switch ==
  /\ peer.world # ""
  /\ peer' = [running |-> peer.world, world |-> peer.running, local |-> Local]
  /\ pc' = peer.local.pc
  /\ world_name' = peer.local.world_name
  /\ world_files' = peer.local.world_files
  /\ map_metadata' = peer.local.map_metadata
  /\ metadata_path' = peer.local.metadata_path
  /\ existing' = peer.local.existing
  /\ world_id' = peer.local.world_id
  /\ idx' = peer.local.idx
  /\ features' = peer.local.features
  /\ pos' = peer.local.pos
  /\ rows' = peer.local.rows
  /\ total_rows' = peer.local.total_rows
  /\ error' = peer.local.error
  /\ imported' = peer.local.imported
  /\ before' = peer.local.before
  /\ seen' = peer.local.seen
  /\ previous' = peer.local.previous
  /\ db_manager' = peer.local.db_manager
  /\ main' = peer.local.main
  /\ UNCHANGED <<maps_world, tables, artifacts, disk>>

\* conn.execute(insert_sql, ...) after another process has inserted a row of
\* the name since the fetchrow.  Whether maps_world has a unique constraint on
\* name is not in the source: without one the insert goes through
\* (ExecuteWorld), with one it raises here and create_world_entry with it.
ExecuteWorldRejected ==
  /\ pc = "execute"
  /\ existing = NoRow
  /\ SelectWorld(world_name) # {}
  /\ Raise("UniqueViolation")
  /\ db_manager' = Release
  /\ UNCHANGED <<main, peer, maps_world, tables, artifacts, disk, world_name, world_files,
                 map_metadata, metadata_path, existing, world_id, idx, features,
                 pos, rows, total_rows, imported, before, seen, previous>>

(***************************************************************************)
(* Specifications.                                                         *)
(***************************************************************************)
\* the store as the pool meets it and import_world before its first call,
\* beside a second process or none; at is where main stands
StartAt(at, other, worlds, files) ==
  /\ main = at
  /\ db_manager = IF at = "none" THEN Connected ELSE NotConnected
  /\ peer = other
  /\ maps_world = worlds
  /\ tables = [k \in KindSet |-> {}]
  /\ artifacts = [d \in Dirs |-> [n \in Names |-> NoMetadata]]
  /\ disk = files
  /\ pc = "idle"
  /\ world_name = ""
  /\ world_files = <<>>
  /\ map_metadata = NoMetadata
  /\ metadata_path = ""
  /\ existing = NoRow
  /\ world_id = 0
  /\ idx = 1
  /\ features = <<>>
  /\ pos = 1
  /\ rows = 0
  /\ total_rows = 0
  /\ error = ""
  /\ imported = <<>>
  /\ before = {}
  /\ seen = NothingSeen
  /\ previous = NoRun

\* import_world called over a connected pool
StartBeside(other, worlds, files) == StartAt("none", other, worlds, files)

\* a single process
StartOver(worlds, files) == StartBeside(NoPeer, worlds, files)

\* an empty store
Start(files) == StartOver({}, files)

Run(env) ==
  \/ FindWorldFiles(env)
  \/ ScanScale(env)
  \/ MissingScale
  \/ MissingDrawing(env)
  \/ BuildMapMetadata(env)
  \/ WriteMetadataFile(env)
  \/ FetchWorld
  \/ ExecuteWorld
  \/ ReturnWorld
  \/ OpenFile(env)
  \/ ExecuteFeature
  \/ FeatureRaises
  \/ ReturnRows(env)
  \/ Finish

\* sequences of at most n members of S
SeqUpTo(S, n) == UNION {[1..m -> S] : m \in 0..n}

Untracked == [n \in Names |-> [k \in KindSet |-> AnyFile]]

\* drawings that declare their width and height: 1000x500, 3x2
Svg1000x500 == Svg(TRUE, NumStr(2000), NumStr(1000), 0, Absent, Absent)
Svg3x2 == Svg(TRUE, NumStr(6), NumStr(4), 0, Absent, Absent)

\* a feature of local id i in its v-th version: every column differs by version
Version(i, v) == Feature(Num(i), Num(100 * v), NumStr(v), v)

\* features without a usable local id: no id, a null id, an id that is no number
NoId == {Feature(Absent, Num(100), Text, 1), Feature(Null, Num(100), Text, 1),
         Feature(Text, Num(100), Text, 1)}

(* Spec: runs of import_world, one after another, for one world, over      *)
(* files the model does not track: every access to a file may find         *)
(* anything the sets allow.  All five kinds; features of local id 1.       *)
Env ==
  [names |-> {"w1"},
   presents |-> SUBSET KindSet,
   scans |-> {File(TRUE, s, <<>>) : s \in {Absent, Num(1), Num(2)}},
   files |-> {File(TRUE, Absent, fs) :
                fs \in SeqUpTo({Version(1, 1), Feature(Absent, Num(100), Text, 1)},
                               MaxFeatures)},
   drawings |-> {{}, {<<"dir", "_states">>}},
   svgs |-> {Svg1000x500, NoSvg},
   inks |-> {NoInkscape},
   writes |-> BOOLEAN,
   remember |-> FALSE]

Init == Start(Untracked)

Next == Run(Env)

Spec == Init /\ [][Next]_vars

(* SpecUpsert: one kind's file exists, whichever kind it is; its features  *)
(* carry local ids 1..MaxLocalId in two versions, or no usable id.         *)
OnlyKind(k0) == [n \in Names |-> [k \in KindSet |-> IF k = k0 THEN AnyFile ELSE NoFile]]

EnvUpsert ==
  [names |-> {"w1"},
   presents |-> SUBSET KindSet,
   scans |-> {File(TRUE, Num(1), <<>>), File(TRUE, Absent, <<>>)},
   files |-> {File(TRUE, Absent, fs) :
                fs \in SeqUpTo({Version(i, v) : i \in LocalIds, v \in 1..2} \cup NoId,
                               MaxFeatures)},
   drawings |-> {{}, {<<"dir", "_states">>}},
   svgs |-> {Svg1000x500},
   inks |-> {NoInkscape},
   writes |-> {TRUE},
   remember |-> FALSE]

InitUpsert == \E k0 \in KindSet : Start(OnlyKind(k0))

NextUpsert == Run(EnvUpsert)

SpecUpsert == InitUpsert /\ [][NextUpsert]_vars

(* SpecWorld: two world names, drawings of two sizes, two scales; only a   *)
(* cells file, of at most one feature.                                     *)
EnvWorld ==
  [names |-> Names,
   presents |-> SUBSET KindSet,
   scans |-> {File(TRUE, s, <<>>) : s \in {Absent, Text, Num(1), NumStr(2)}}
             \cup {Unreadable},
   files |-> {File(TRUE, Absent, <<>>), File(TRUE, Absent, <<Version(1, 1)>>),
              File(TRUE, Absent, <<Feature(Absent, Num(100), Text, 1)>>), Unreadable},
   drawings |-> {{}, {<<"dir", "_states">>}},
   svgs |-> {Svg1000x500, Svg3x2, NoSvg},
   inks |-> {NoInkscape},
   writes |-> BOOLEAN,
   remember |-> FALSE]

InitWorld == Start(OnlyKind("cells"))

NextWorld == Run(EnvWorld)

SpecWorld == InitWorld /\ [][NextWorld]_vars

(* SpecRerun: the files are fixed and every run of import_world reads the  *)
(* same ones.  One kind holds any feature list; each other kind holds no   *)
(* file or a file of one feature.                                          *)
RerunFiles ==
  {File(TRUE, Num(2), fs) :
     fs \in SeqUpTo({Version(i, v) : i \in LocalIds, v \in 1..2}
                    \cup {Feature(Absent, Num(100), Text, 1)}, MaxFeatures)}

RerunDisk(k0, file, others) ==
  [n \in Names |-> [k \in KindSet |->
     IF n # "w1" THEN NoFile
     ELSE IF k = k0 THEN file
     ELSE IF k \in others THEN File(TRUE, Absent, <<Version(1, 1)>>)
     ELSE NoFile]]

EnvRerun ==
  [names |-> {"w1"},
   presents |-> SUBSET KindSet,
   scans |-> {},
   files |-> {},
   drawings |-> {{}, {<<"dir", "_states">>}},
   svgs |-> {Svg1000x500},
   inks |-> {NoInkscape},
   writes |-> {TRUE},
   remember |-> TRUE]

InitRerun ==
  \E k0 \in KindSet : \E file \in RerunFiles \cup {NoFile} :
  \E others \in SUBSET (KindSet \ {k0}) : Start(RerunDisk(k0, file, others))

NextRerun == Run(EnvRerun)

SpecRerun == InitRerun /\ [][NextRerun]_vars

(* SpecEntry: as SpecWorld, over a store that may hold a world row written  *)
(* before: a row that was deactivated and described by hand since.         *)
Deactivated(name) ==
  [id |-> 1, name |-> name, description |-> <<"edited: ", name>>,
   bounds |-> Bounds(3, 2, 1), width_pixels |-> 3, height_pixels |-> 2,
   meters_per_pixel |-> 1, is_active |-> FALSE]

InitEntry ==
  \E worlds \in {{}} \cup {{Deactivated(n)} : n \in Names} :
    StartOver(worlds, OnlyKind("cells"))

NextEntry == Run(EnvWorld)

SpecEntry == InitEntry /\ [][NextEntry]_vars

(* SpecDecode: one kind's file exists; its features carry local id 1 and an *)
(* attribute that is absent, null, a number, a numeric string or other     *)
(* text, or they have no property bag, or a null one.                      *)
Decodable ==
  {Feature(Num(1), n, Text, 1) : n \in {Absent, Null, Text, Num(100), NumStr(100)}}
  \cup {Feature(Num(1), Num(100), t, 1) : t \in {Absent, Null, Num(7)}}
  \cup {NoBag, NullBag}

EnvDecode ==
  [names |-> {"w1"},
   presents |-> SUBSET KindSet,
   scans |-> {File(TRUE, Num(1), <<>>), File(TRUE, Absent, <<>>)},
   files |-> {File(TRUE, Absent, fs) : fs \in SeqUpTo(Decodable, MaxFeatures)},
   drawings |-> {{}, {<<"dir", "_states">>}},
   svgs |-> {Svg1000x500},
   inks |-> {NoInkscape},
   writes |-> {TRUE},
   remember |-> FALSE]

InitDecode == \E k0 \in KindSet : Start(OnlyKind(k0))

NextDecode == Run(EnvDecode)

SpecDecode == InitDecode /\ [][NextDecode]_vars

(* SpecScale: the files are fixed; cells, burgs and routes each hold no     *)
(* file, an unreadable one, or one whose scale is absent, text, a number   *)
(* or a numeric string.                                                    *)
ScaleFiles ==
  {File(TRUE, s, <<>>) : s \in {Absent, Text, Num(1), NumStr(2)}}
  \cup {Unreadable,
        File(TRUE, Num(3), <<Version(1, 1), Feature(Absent, Num(100), Text, 1)>>)}

ScaleDisk(cells, burgs, routes) ==
  [n \in Names |-> [k \in KindSet |->
     IF n # "w1" THEN NoFile
     ELSE IF k = "cells" THEN cells
     ELSE IF k = "burgs" THEN burgs
     ELSE IF k = "routes" THEN routes
     ELSE NoFile]]

EnvScale ==
  [names |-> {"w1"},
   presents |-> SUBSET KindSet,
   scans |-> {},
   files |-> {},
   drawings |-> {{}, {<<"dir", "_states">>}},
   svgs |-> {Svg1000x500},
   inks |-> {NoInkscape},
   writes |-> {TRUE},
   remember |-> FALSE]

InitScale ==
  \E cells \in ScaleFiles \cup {NoFile} : \E burgs \in ScaleFiles \cup {NoFile} :
  \E routes \in ScaleFiles \cup {NoFile} : Start(ScaleDisk(cells, burgs, routes))

NextScale == Run(EnvScale)

SpecScale == InitScale /\ [][NextScale]_vars

(* SpecDims: drawings whose width and height are absent, text or a number,  *)
(* with no viewBox, one of three parts, or one of four whose last two are  *)
(* text or numbers; inkscape missing, failing, or printing text or numbers.*)
(* Numbers are counted in halves: 2.5 x 2, 4 x 3.5, 10 x 5.                *)
DimSvgs ==
  {Svg(TRUE, w, h, n, vbw, vbh) :
     w \in {Absent, Text, NumStr(5)}, h \in {Absent, Text, NumStr(4)},
     n \in {0, 3, 4}, vbw \in {Text, NumStr(8)}, vbh \in {Text, NumStr(7)}}
  \cup {NoSvg}

DimInks ==
  {Inkscape(TRUE, TRUE, w, h) : w \in {Text, NumStr(20)}, h \in {Text, NumStr(10)}}
  \cup {NoInkscape, Inkscape(TRUE, FALSE, Absent, Absent)}

EnvDims ==
  [names |-> {"w1"},
   presents |-> SUBSET KindSet,
   scans |-> {File(TRUE, Num(1), <<>>), File(TRUE, Absent, <<>>)},
   files |-> {File(TRUE, Absent, <<>>), File(TRUE, Absent, <<Version(1, 1)>>),
              File(TRUE, Absent, <<Feature(Absent, Num(100), Text, 1)>>)},
   drawings |-> {{}, {<<"dir", "_states">>}},
   svgs |-> DimSvgs,
   inks |-> DimInks,
   writes |-> {TRUE},
   remember |-> FALSE]

InitDims == Start(OnlyKind("cells"))

NextDims == Run(EnvDims)

SpecDims == InitDims /\ [][NextDims]_vars

(* SpecDrawing: any of the three candidate names may exist in the files'    *)
(* directory and in its parent, and the set of the two directories may be  *)
(* iterated in either order.                                               *)
EnvDrawing ==
  [names |-> {"w1"},
   presents |-> SUBSET KindSet,
   scans |-> {File(TRUE, Num(1), <<>>), File(TRUE, Absent, <<>>)},
   files |-> {File(TRUE, Absent, <<>>), File(TRUE, Absent, <<Version(1, 1)>>),
              File(TRUE, Absent, <<Feature(Absent, Num(100), Text, 1)>>)},
   drawings |-> SUBSET (Dirs \X {PreferredNames[i] : i \in 1..Len(PreferredNames)}),
   svgs |-> {Svg1000x500},
   inks |-> {NoInkscape},
   writes |-> {TRUE},
   remember |-> FALSE]

InitDrawing == Start(OnlyKind("cells"))

NextDrawing == Run(EnvDrawing)

SpecDrawing == InitDrawing /\ [][NextDrawing]_vars

(* SpecPeers: two processes, one importing w1 and one importing w2, each    *)
(* from a cells file of its own that never changes.  Both files carry the  *)
(* local ids 1 and 2; a file may also lack its scale or end in a feature   *)
(* without a local id.                                                     *)
PeerFiles(v) ==
  {File(TRUE, Num(v), <<Version(1, v), Version(2, v)>>),
   File(TRUE, Absent, <<Version(1, v)>>),
   File(TRUE, Num(v), <<Version(1, v), Feature(Absent, Num(100), Text, 1)>>)}

PeerDisk(file1, file2) ==
  [n \in Names |-> [k \in KindSet |->
     IF k # "cells" THEN NoFile ELSE IF n = "w1" THEN file1 ELSE file2]]

EnvPeers ==
  [names |-> {peer.running},
   presents |-> SUBSET KindSet,
   scans |-> {},
   files |-> {},
   drawings |-> {{}, {<<"dir", "_states">>}},
   svgs |-> {Svg1000x500},
   inks |-> {NoInkscape},
   writes |-> {TRUE},
   remember |-> FALSE]

InitPeers ==
  \E file1 \in PeerFiles(1) : \E file2 \in PeerFiles(2) :
    StartBeside([running |-> "w1", world |-> "w2", local |-> NotStarted], {},
                PeerDisk(file1, file2))

NextPeers == Run(EnvPeers) \/ Switch

SpecPeers == InitPeers /\ [][NextPeers]_vars

(* SpecRace: two processes that import the same world w1 from the same      *)
(* cells file, over a store that holds no row of that name.                *)
InitRace ==
  \E file \in PeerFiles(1) :
    StartBeside([running |-> "w1", world |-> "w1", local |-> NotStarted], {},
                PeerDisk(file, file))

NextRace == Run(EnvPeers) \/ Switch \/ ExecuteWorldRejected

SpecRace == InitRace /\ [][NextRace]_vars

(* SpecMain: processes that run main, one after another, for one world     *)
(* with a cells file of at most one feature.  A process that has begun     *)
(* goes on until it ends.                                                  *)
EnvMain ==
  [names |-> {"w1"},
   presents |-> SUBSET KindSet,
   scans |-> {File(TRUE, Num(1), <<>>), File(TRUE, Absent, <<>>)},
   files |-> {File(TRUE, Absent, <<>>), File(TRUE, Absent, <<Version(1, 1)>>),
              File(TRUE, Absent, <<Feature(Absent, Num(100), Text, 1)>>), Unreadable},
   drawings |-> {{}, {<<"dir", "_states">>}},
   svgs |-> {Svg1000x500},
   inks |-> {NoInkscape},
   writes |-> BOOLEAN,
   remember |-> FALSE]

InitMain == StartAt("start", NoPeer, {}, OnlyKind("cells"))

NextMain == Run(EnvMain) \/ Main \/ Connect \/ ImportReturns \/ Except \/ Close

SpecMain == InitMain /\ [][NextMain]_vars /\ WF_vars(NextMain)

(***************************************************************************)
(* Properties.                                                             *)
(***************************************************************************)
MetadataErrors ==
  {"MissingScale", "MissingDrawing", "UnresolvableDimensions", "MetadataPersistFailure"}

FeatureErrors == {"NullProperties", "MissingLocalId", "BadAttribute"}

Finished == pc \in {"idle", "returned", "raised"}

\* C1 (SpecRerun: the files never change).  When import_world returns after
\* a run for the same world that also returned, both runs logged the same row
\* count for every kind and resolved the same world id, the name has exactly
\* one world row, and every feature table holds the same (world_id, local id)
\* keys as after the first run, one row each.
C1_RerunIsIdempotent ==
  (/\ pc = "returned"
   /\ previous.ran
   /\ previous.error = ""
   /\ previous.name = world_name)
  => /\ imported = previous.imported
     /\ world_id = previous.world_id
     /\ world_files # <<>> => Cardinality(SelectWorld(world_name)) = 1
     /\ \A k \in KindSet :
          /\ Keys(tables[k]) = previous.keys[k]
          /\ Cardinality(tables[k]) = previous.sizes[k]
          /\ Cardinality(tables[k]) = Cardinality(Keys(tables[k]))

\* a second successful run over two kinds or more, one of whose files repeats
\* a local id
C1_SecondRunReturned ==
  /\ pc = "returned"
  /\ previous.ran
  /\ previous.error = ""
  /\ previous.name = world_name
  /\ Len(imported) >= 2
  /\ \E i \in 1..Len(imported) : imported[i][2] > Cardinality(tables[imported[i][1]])

\* C2, as claimed.  When an ingestor fails on a feature without a usable
\* local id, its table is what it was when the ingestor began.
C2_FailedFileLeavesNoRows ==
  (pc = "raised" /\ error = "MissingLocalId") => tables[kind] = before

\* C3.  Every feature table holds at most one row per (world_id, local id).
C3_OneRowPerKey ==
  \A k \in KindSet : \A r1, r2 \in tables[k] :
    (r1.world_id = r2.world_id /\ r1.lid = r2.lid) => r1 = r2

\* the feature just executed met a row of its key from an earlier import, in
\* a table that holds another local id as well
C3_KeyMetAgain ==
  /\ pc = "features"
  /\ pos > 1
  /\ Cardinality(tables[kind]) = 2
  /\ \E r \in before : r.world_id = world_id /\ r.lid = features[pos - 1].id.v

\* C4.  After a feature is executed the table holds exactly one row of its
\* (world, local id), and that row's attributes and geometry are the feature's:
\* nothing of the row it met is kept.
C4_RowCarriesLastImport ==
  (pc = "features" /\ pos > 1) =>
    LET f == features[pos - 1]
        hit == Conflicts(tables[kind], world_id, f.id.v)
    IN  /\ Cardinality(hit) = 1
        /\ \A r \in hit : r.num = f.num /\ r.txt = f.txt /\ r.geom = f.geom

\* the feature just executed met a row of its key that differed in every column
C4_OtherVersionMet ==
  /\ pc = "features"
  /\ pos > 1
  /\ \E r \in before :
       /\ r.world_id = world_id
       /\ r.lid = features[pos - 1].id.v
       /\ r.num # features[pos - 1].num
       /\ r.txt # features[pos - 1].txt
       /\ r.geom # features[pos - 1].geom
       /\ \A i \in 1..(pos - 2) : features[i].id # features[pos - 1].id

\* C5.  The world table holds at most one row per name; create_world_entry
\* returns the id of the name's row; and no step changes the id or the name of
\* a row or removes it.
C5_OneWorldPerName ==
  /\ \A r1, r2 \in maps_world : r1.name = r2.name => r1 = r2
  /\ pc = "created" => \E r \in maps_world : r.name = world_name /\ r.id = world_id

C5_WorldIdentityKept ==
  \A r \in maps_world : \E r2 \in maps_world' : r2.id = r.id /\ r2.name = r.name

C5_StableWorldIdentity == []C5_OneWorldPerName /\ [][C5_WorldIdentityKept]_vars

\* create_world_entry met the name's row, with other metadata, beside the row
\* of another world
C5_CalledAgain ==
  /\ pc = "created"
  /\ existing # NoRow
  /\ existing.bounds # map_metadata.bounds
  /\ Cardinality(maps_world) = 2

\* C6.  While import_world reconciles and writes the metadata no step changes
\* the world table or a feature table, and when it raises for the metadata
\* neither create_world_entry nor an ingestor has been called.
C6_NothingCalled ==
  (pc = "raised" /\ error \in MetadataErrors) =>
    /\ world_id = 0
    /\ existing = NoRow
    /\ features = <<>>
    /\ total_rows = 0

C6_NothingWritten ==
  (Finished \/ pc \in {"scale", "svg", "write"}) => store' = store

C6_MetadataFailureWritesNothing == []C6_NothingCalled /\ [][C6_NothingWritten]_vars

\* a metadata failure, over a store that holds a world and a row
C6_MetadataFailed ==
  /\ pc = "raised"
  /\ error \in MetadataErrors
  /\ maps_world # {}
  /\ tables["rivers"] # {}

\* C7.  A feature whose arguments raise ends the run with that error and
\* changes no table; after the run has raised, nothing more of it happens: no
\* later kind is ingested and no row is taken back.
C7_Reraised ==
  (pc = "features" /\ pos <= Len(features) /\ Arguments(kind, features[pos]).t = "raised")
    => /\ pc' = "raised"
       /\ error' \in FeatureErrors
       /\ store' = store
       /\ idx' = idx

C7_RunOver ==
  pc = "raised" => /\ store' = store
                   /\ pc' \in {"scale", "returned"}
                   /\ idx' = 1

C7_FailureEndsRun == [][C7_Reraised /\ C7_RunOver]_vars

\* the third kind's ingest failed after the first two had written rows, and
\* kinds remain
C7_LaterKindFailed ==
  /\ pc = "raised"
  /\ error = "MissingLocalId"
  /\ idx = 3
  /\ Len(world_files) > 3
  /\ tables[world_files[1]] # {}
  /\ tables[world_files[2]] # {}
  /\ maps_world # {}

\* C8.  When create_world_entry has updated the row it found, the name has
\* one row, with the id and name found and the scale and bounds of the new
\* metadata, and the metadata file written by this run holds that metadata.
C8_RowFollowsMetadata ==
  (pc = "created" /\ existing # NoRow) =>
    /\ Cardinality(SelectWorld(world_name)) = 1
    /\ \A r \in SelectWorld(world_name) :
         /\ r.id = existing.id
         /\ r.name = existing.name
         /\ r.meters_per_pixel = map_metadata.meters_per_pixel
         /\ r.bounds = map_metadata.bounds
         /\ r.bounds.east = r.width_pixels * map_metadata.meters_per_pixel
         /\ r.bounds.south = -(r.height_pixels * map_metadata.meters_per_pixel)
    /\ artifacts[metadata_path][world_name] = map_metadata
    /\ Cardinality(maps_world) = Cardinality({r.name : r \in maps_world})

\* the row found had another scale and the same dimensions
C8_ScaleChanged ==
  /\ pc = "created"
  /\ existing # NoRow
  /\ existing.meters_per_pixel # map_metadata.meters_per_pixel
  /\ existing.width_pixels = map_metadata.width_pixels
  /\ existing.height_pixels = map_metadata.height_pixels

\* C9.  The bounds _build_map_metadata computes for width W, height H and
\* scale S are north 0, west 0, east W*S, south -(H*S); 1000, 500 and 2 give
\* east 2000 and south -1000.
C9_BoundsTopLeft ==
  pc = "write" =>
    LET W == map_metadata.width_pixels
        H == map_metadata.height_pixels
        S == map_metadata.meters_per_pixel
        b == map_metadata.bounds
    IN  /\ S = seen.mpp.v
        /\ b.north = 0 /\ b.west = 0 /\ b.east = W * S /\ b.south = -(H * S)
        /\ (W = 1000 /\ H = 500 /\ S = 2) => (b.east = 2000 /\ b.south = -1000)

\* the metadata of a 1000x500 drawing at scale 2
C9_ThousandByFiveHundred ==
  /\ pc = "write"
  /\ map_metadata.width_pixels = 1000
  /\ map_metadata.height_pixels = 500
  /\ map_metadata.meters_per_pixel = 2

\* C10.  A call of import_world that finds no file returns at once, without
\* an error: it reads no metadata, writes no metadata file and changes no
\* table.
C10_NoFilesStep ==
  (Finished /\ world_files' = <<>>) =>
    /\ pc' = "returned"
    /\ error' = ""
    /\ store' = store
    /\ artifacts' = artifacts
    /\ seen' = NothingSeen
    /\ map_metadata' = NoMetadata
    /\ world_id' = 0

C10_NoFilesNoEffect == [][C10_NoFilesStep]_vars

\* import_world returned for no file, over a store that holds rows
C10_NoFilesFound ==
  /\ pc = "returned"
  /\ world_files = <<>>
  /\ maps_world # {}
  /\ tables["cells"] # {}

\* C11 (SpecRerun).  import_world ingests the kinds whose files exist and no
\* other: a run that returns has logged exactly the present kinds, a run fails
\* after the metadata only on a present file that holds a feature whose
\* arguments raise, never for a kind that is absent, and no step changes the
\* table of a kind whose file is absent.
C11_PresentKindsIngested ==
  pc # "idle" =>
    /\ \A k \in KindSet :
         (disk[world_name][k].tag = "file") <=> (\E i \in 1..Len(world_files) : world_files[i] = k)
    /\ (pc = "returned" /\ world_files # <<>>) =>
         /\ error = ""
         /\ [i \in 1..Len(imported) |-> imported[i][1]] = world_files
    /\ (pc = "raised" /\ error \notin MetadataErrors) =>
         LET file == disk[world_name][kind] IN
           /\ file.tag = "file"
           /\ \/ ~file.ok
              \/ /\ pos <= Len(file.features)
                 /\ Arguments(kind, file.features[pos]).t = "raised"

C11_AbsentKindsUntouched ==
  \A k \in KindSet : disk[world_name'][k].tag # "file" => tables'[k] = tables[k]

C11_AnySubsetImports == []C11_PresentKindsIngested /\ [][C11_AbsentKindsUntouched]_vars

\* a world of a cells file and a rivers file only was imported
C11_CellsAndRiversOnly ==
  /\ pc = "returned"
  /\ world_files = <<"cells", "rivers">>
  /\ imported = <<<<"cells", 2>>, <<"rivers", 1>>>>
  /\ tables["cells"] # {}
  /\ tables["rivers"] # {}
  /\ tables["burgs"] = {} /\ tables["routes"] = {} /\ tables["markers"] = {}

\* C12 (SpecRerun).  In every run the metadata file is written before the
\* world row is resolved, the world row is resolved before an ingestor starts,
\* and the ingestors run one at a time in the order cells, burgs, routes,
\* rivers, markers over the kinds found: while the i-th kind found is ingested
\* exactly the i-1 kinds before it have returned, and a step changes the table
\* of the kind being ingested only.
C12_Order == <<"cells", "burgs", "routes", "rivers", "markers">>

C12_Rank(k) == CHOOSE i \in 1..Len(C12_Order) : C12_Order[i] = k

C12_PhasesInOrder ==
  /\ \A i, j \in 1..Len(world_files) :
       i < j => C12_Rank(world_files[i]) < C12_Rank(world_files[j])
  /\ pc \in {"select", "execute", "created", "ingest", "features"} =>
       /\ map_metadata # NoMetadata
       /\ artifacts[metadata_path][world_name] = map_metadata
  /\ pc \in {"scale", "svg", "write", "select", "execute", "created"} =>
       /\ imported = <<>>
       /\ features = <<>>
  /\ pc \in {"scale", "svg", "write", "select", "execute"} => world_id = 0
  /\ pc \in {"ingest", "features"} =>
       /\ \E r \in maps_world : r.id = world_id /\ r.name = world_name
       /\ [i \in 1..Len(imported) |-> imported[i][1]] = SubSeq(world_files, 1, idx - 1)

C12_OneAtATime ==
  /\ artifacts' # artifacts => pc = "write"
  /\ maps_world' # maps_world => pc = "execute"
  /\ tables' # tables =>
       /\ pc = "features"
       /\ \A k \in KindSet : k # world_files[idx] => tables'[k] = tables[k]

C12_FixedPhaseOrder == []C12_PhasesInOrder /\ [][C12_OneAtATime]_vars

\* the third of three kinds found is being ingested, after burgs and rivers
C12_ThirdKindRunning ==
  /\ pc = "features"
  /\ world_files = <<"burgs", "rivers", "markers">>
  /\ idx = 3
  /\ pos > 1
  /\ Len(imported) = 2

\* C14 (SpecUpsert).  An ingestor's counter is the number of features it has
\* executed, and when it has gone through the file without an error the count
\* it returns is the number of features of the file, whether a feature
\* inserted a row, updated one, or repeated a local id of the file.
C14_RowsCountFeatures ==
  pc = "features" =>
    /\ rows = pos - 1
    /\ pos > Len(features) => rows = Len(features)

\* an ingestor ends a file of two features of one local id that a row of an
\* earlier import carried already: two counted, one row
C14_UpdatesCounted ==
  /\ pc = "features"
  /\ pos > Len(features)
  /\ rows = 2
  /\ features[1].id = features[2].id
  /\ before # {}
  /\ Cardinality(tables[kind]) = 1

\* C20 (SpecUpsert).  When an ingestor has gone through a file without an
\* error it has executed every feature, in the file's order, and for each local
\* id of the file the table holds one row of this world, carrying the
\* attributes and geometry of the last feature of the file with that id.
C20_LaterFeatureWins ==
  (pc = "features" /\ pos > Len(features)) =>
    /\ rows = Len(features)
    /\ \A i \in 1..Len(features) :
         (\A j \in (i + 1)..Len(features) : features[j].id # features[i].id) =>
           LET f == features[i]
               hit == {r \in tables[kind] : r.world_id = world_id /\ r.lid = f.id.v}
           IN  /\ Cardinality(hit) = 1
               /\ \A r \in hit : r.num = f.num /\ r.txt = f.txt /\ r.geom = f.geom

\* a file held one local id twice, the second time with other attributes and
\* another geometry, and nothing else
C20_SameIdTwice ==
  /\ pc = "features"
  /\ pos > Len(features)
  /\ Len(features) = 2
  /\ features[1].id = features[2].id
  /\ features[1].num # features[2].num
  /\ features[1].geom # features[2].geom
  /\ before = {}

\* C15 (SpecEntry).  create_world_entry's statement, when no row has the name,
\* adds one row and changes no other: the new row carries the name, the
\* description, the bounds, dimensions and scale of the metadata, and is active.
\* When a row has the name, the statement replaces that row by one of the same
\* id, name and active flag with the new description, bounds, dimensions and
\* scale, and changes no other row.  It changes no feature table.
C15_Carries(r) ==
  /\ r.description = <<"Imported world map: ", world_name>>
  /\ r.bounds = map_metadata.bounds
  /\ r.width_pixels = map_metadata.width_pixels
  /\ r.height_pixels = map_metadata.height_pixels
  /\ r.meters_per_pixel = map_metadata.meters_per_pixel

C15_Inserted ==
  \E r \in maps_world' \ maps_world :
    /\ maps_world' = maps_world \cup {r}
    /\ r.name = world_name
    /\ r.is_active
    /\ C15_Carries(r)
    /\ world_id' = r.id

C15_Updated ==
  \E r \in maps_world : \E r2 \in maps_world' :
    /\ r.name = world_name
    /\ maps_world' = (maps_world \ {r}) \cup {r2}
    /\ r2.id = r.id /\ r2.name = r.name /\ r2.is_active = r.is_active
    /\ C15_Carries(r2)
    /\ world_id' = r.id

C15_EntryStep ==
  pc = "execute" =>
    /\ IF SelectWorld(world_name) = {} THEN C15_Inserted ELSE C15_Updated
    /\ tables' = tables

C15_InsertOrUpdateInPlace == [][C15_EntryStep]_vars

\* create_world_entry updated a deactivated row described by hand, beside the
\* row of another world
C15_DeactivatedRowUpdated ==
  /\ pc = "created"
  /\ existing # NoRow
  /\ ~existing.is_active
  /\ existing.description # Description(world_name)
  /\ existing.bounds # map_metadata.bounds
  /\ Cardinality(maps_world) = 2
  /\ \E r \in maps_world : r.id = world_id /\ ~r.is_active

\* C16, as claimed (SpecDecode).  An ingestor fails on a feature only for its
\* local id; a feature with a usable local id is executed, and its row carries
\* the default of every attribute that is absent, null or not decodable: 0 for
\* an integer attribute, null for a free-form one.
C16_Undecodable(value) == value.t \in {"absent", "null", "text"}

C16_DefaultsNeverFail ==
  /\ (pc = "raised" /\ error \in FeatureErrors) =>
       \/ features[pos].bag # "dict"
       \/ features[pos].id.t \notin {"num", "numstr"}
  /\ (pc = "features" /\ pos > 1) =>
       LET f == features[pos - 1] IN
       \A r \in Conflicts(tables[kind], world_id, f.id.v) :
         /\ (kind \in IntKinds /\ C16_Undecodable(f.num)) => r.num = Num(0)
         /\ f.txt \in {Absent, Null} => r.txt = None

\* C17 (SpecScale: the files never change).  The scan reads the files found in
\* their order and stops at the first that is readable and holds a number or a
\* numeric string as scale: that number is the scale of the metadata, and the
\* files before it, which hold no such scale, were read and passed over.  The
\* run raises MissingScale only when no file found holds one, and gets past
\* the scan only when one does.
C17_Scanned(i) == disk[world_name][world_files[i]]

C17_Valid(i) == C17_Scanned(i).ok /\ C17_Scanned(i).scale.t \in {"num", "numstr"}

C17_FirstValid ==
  CHOOSE i \in 1..Len(world_files) :
    C17_Valid(i) /\ \A j \in 1..(i - 1) : ~C17_Valid(j)

C17_FirstValidScale ==
  /\ pc = "scale" =>
       /\ Len(seen.files) = idx - 1
       /\ \A i \in 1..(idx - 1) :
            /\ seen.files[i] = [ok |-> C17_Scanned(i).ok, scale |-> C17_Scanned(i).scale]
            /\ ~C17_Valid(i)
  /\ pc = "svg" =>
       /\ \E i \in 1..Len(world_files) : C17_Valid(i)
       /\ idx = C17_FirstValid
       /\ Len(seen.files) = idx
       /\ seen.mpp = Num(C17_Scanned(idx).scale.v)
  /\ pc \in {"write", "select", "execute", "created", "ingest", "features"} =>
       /\ \E i \in 1..Len(world_files) : C17_Valid(i)
       /\ map_metadata.meters_per_pixel = C17_Scanned(C17_FirstValid).scale.v
  /\ (pc = "raised" /\ error = "MissingScale") =>
       /\ Len(seen.files) = Len(world_files)
       /\ \A i \in 1..Len(world_files) : ~C17_Valid(i)

\* the scan passed over an unreadable file and a file whose scale is text and
\* took the numeric string of the third
C17_ThirdFileTaken ==
  /\ pc = "svg"
  /\ idx = 3
  /\ ~C17_Scanned(1).ok
  /\ C17_Scanned(2).scale = Text
  /\ seen.mpp = Num(2)

\* C18 (SpecDims).  The dimensions of the metadata come from the first of
\* three sources that yields both a width and a height: the drawing's width
\* and height attributes, else the third and fourth part of a four-part
\* viewBox, else inkscape's two answers; each rounded to an integer.  Inkscape
\* is asked only when the two sources before it yielded no pair, and the run
\* raises for the dimensions only when the drawing does not parse or none of
\* the three yields a pair.
C18_Numeric(w, h) == w.t = "numstr" /\ h.t = "numstr"

C18_Source(svg, ink) ==
  IF C18_Numeric(svg.width, svg.height) THEN <<svg.width, svg.height>>
  ELSE IF svg.viewBox.parts = 4 /\ C18_Numeric(svg.viewBox.w, svg.viewBox.h)
       THEN <<svg.viewBox.w, svg.viewBox.h>>
  ELSE IF ink.found /\ ink.runs /\ C18_Numeric(ink.width, ink.height)
       THEN <<ink.width, ink.height>>
  ELSE <<>>

C18_FallbackChain ==
  /\ pc = "write" =>
       LET source == C18_Source(seen.svg, seen.ink) IN
       /\ seen.svg.parses
       /\ source # <<>>
       /\ map_metadata.width_pixels = Round(source[1].v)
       /\ map_metadata.height_pixels = Round(source[2].v)
  /\ (pc = "raised" /\ error = "UnresolvableDimensions") =>
       \/ ~seen.svg.parses
       \/ C18_Source(seen.svg, seen.ink) = <<>>
  /\ (pc \in {"write", "raised"} /\ seen.ink # NoInkscape) =>
       /\ ~C18_Numeric(seen.svg.width, seen.svg.height)
       /\ ~(seen.svg.viewBox.parts = 4
            /\ C18_Numeric(seen.svg.viewBox.w, seen.svg.viewBox.h))

\* a drawing that declares a width of 2.5 and no height, with a viewBox of
\* four parts ending in 4 and 3.5: the metadata is 4 x 4
C18_ViewBoxTaken ==
  /\ pc = "write"
  /\ seen.svg.width = NumStr(5)
  /\ seen.svg.height = Absent
  /\ seen.svg.viewBox.parts = 4
  /\ map_metadata.width_pixels = 4
  /\ map_metadata.height_pixels = 4

\* C19, as claimed (SpecDrawing).  The drawing of the metadata is a candidate
\* that exists, and no candidate that exists in either directory has a name
\* of higher preference (_states before _map before the bare name), whatever
\* the order of the directories; the run raises MissingDrawing only when no
\* candidate exists.
C19_Preference(name) ==
  CASE name = "_states" -> 1
    [] name = "_map" -> 2
    [] name = "" -> 3

C19_BestNameFound ==
  /\ pc = "write" =>
       /\ map_metadata.source_svg \in seen.drawings
       /\ \A d \in seen.drawings :
            C19_Preference(map_metadata.source_svg[2]) <= C19_Preference(d[2])
  /\ (pc = "raised" /\ error = "MissingDrawing") => seen.drawings = {}

\* C13 (SpecPeers).  Of two processes that import two worlds over one store,
\* in any interleaving of their statements, a step of one adds, changes or
\* removes no world row of the other's name and no feature row of the other's
\* world; and when both have returned the store is what the two imports leave
\* when one runs after the other: one world row per name, with the scale of
\* its own file, and for each world the rows its own file gives, local ids
\* shared with the other world included.
C13_Owner(r) == {w.name : w \in {w \in maps_world : w.id = r.world_id}}

C13_Others(table) == {r \in table : C13_Owner(r) # {peer.running}}

C13_OwnRowsOnly ==
  /\ {r \in maps_world : r.name # peer.running} = {r \in maps_world' : r.name # peer.running}
  /\ \A k \in KindSet : C13_Others(tables[k]) = C13_Others(tables'[k])

C13_Content(table) == {[r EXCEPT !.id = 0] : r \in table}

C13_AsOneAfterTheOther ==
  (pc = "returned" /\ peer.local.pc = "returned") =>
    /\ Cardinality(maps_world) = 2
    /\ \A n \in Names : \E w \in maps_world :
         /\ w.name = n
         /\ w.meters_per_pixel = disk[n]["cells"].scale.v
         /\ C13_Content({r \in tables["cells"] : r.world_id = w.id})
              = C13_Content(IngestAll({}, w.id, "cells", disk[n]["cells"].features))
    /\ Cardinality(tables["cells"]) = 4
    /\ \A k \in KindSet \ {"cells"} : tables[k] = {}

C22_EveryRowHasItsWorld ==
  /\ \A k \in KindSet : \A r \in tables[k] : \E w \in maps_world : w.id = r.world_id
  /\ pc \in {"ingest", "features"} =>
       \E w \in maps_world : w.id = world_id /\ w.name = world_name

\* a run failed in its second kind, on the second feature of the file, and
\* left rows of both kinds
C22_PartWayFailure ==
  /\ pc = "raised"
  /\ error = "MissingLocalId"
  /\ idx = 2
  /\ pos = 2
  /\ tables[world_files[1]] # {}
  /\ tables[world_files[2]] # {}

\* C23 (SpecWorld).  In every state every world row's bounds agree with the
\* row's own dimensions and scale: north 0, west 0, east = width_pixels *
\* meters_per_pixel, south = -(height_pixels * meters_per_pixel); and a step
\* that changes a row's dimensions or scale changes its bounds as well.
C23_RowConsistent(r) ==
  /\ r.bounds.north = 0
  /\ r.bounds.west = 0
  /\ r.bounds.east = r.width_pixels * r.meters_per_pixel
  /\ r.bounds.south = -(r.height_pixels * r.meters_per_pixel)

C23_BoundsWithRow ==
  \A r \in maps_world : \A r2 \in maps_world' :
    (/\ r2.id = r.id
     /\ \/ r2.width_pixels # r.width_pixels
        \/ r2.height_pixels # r.height_pixels
        \/ r2.meters_per_pixel # r.meters_per_pixel)
    => r2.bounds # r.bounds

C23_BoundsStayConsistent ==
  [](\A r \in maps_world : C23_RowConsistent(r)) /\ [][C23_BoundsWithRow]_vars

\* a run failed on the metadata after an earlier run had updated the world's
\* row to 3 x 2 at scale 2, beside the row of another world
C23_FailedAfterUpdate ==
  /\ pc = "raised"
  /\ error \in MetadataErrors
  /\ Cardinality(maps_world) = 2
  /\ \E r \in maps_world :
       /\ r.name = world_name
       /\ r.width_pixels = 3 /\ r.height_pixels = 2 /\ r.meters_per_pixel = 2
       /\ r.bounds.east = 6 /\ r.bounds.south = -4

\* C25 (SpecUpsert).  A statement of an ingestor that meets a row of its
\* (world_id, local id) adds no row and leaves that row its id, its world_id
\* and its local id: the uuid generated for the statement is dropped, and the
\* attributes and the geometry become the feature's.
C25_KeyAndIdKept ==
  (pc = "features" /\ pos <= Len(features)
   /\ Arguments(kind, features[pos]).t # "raised"
   /\ Conflicts(tables[kind], world_id, Arguments(kind, features[pos]).lid) # {})
  => LET args == Arguments(kind, features[pos]) IN
     /\ Cardinality(tables'[kind]) = Cardinality(tables[kind])
     /\ {r.id : r \in tables'[kind]} = {r.id : r \in tables[kind]}
     /\ \A r \in Conflicts(tables[kind], world_id, args.lid) :
          \E r2 \in tables'[kind] :
            /\ r2.id = r.id /\ r2.world_id = r.world_id /\ r2.lid = r.lid
            /\ r2.num = args.num /\ r2.txt = args.txt /\ r2.geom = args.geom

C25_UpdateKeepsIdentity == [][C25_KeyAndIdKept]_vars

\* a feature met the row of its key, the first of two rows, and changed its
\* attributes: the row has its id still
C25_FirstRowOverwritten ==
  /\ pc = "features"
  /\ pos > 1
  /\ Cardinality(before) = 2
  /\ \E r \in before : \E r2 \in tables[kind] :
       /\ r.id = 1 /\ r2.id = 1
       /\ r.lid = features[pos - 1].id.v
       /\ r2.lid = r.lid
       /\ r2.num # r.num

\* C26 (SpecUpsert).  No step removes a feature row: the (world_id, local id)
\* keys of every table only grow, and a step changes no row but the one whose
\* key the statement carries.  When an ingestor has gone through a file, the
\* rows the table held before whose local id the file does not name are in
\* the table as they were.
C26_Upserted(k, r) ==
  /\ pc = "features"
  /\ k = kind
  /\ pos <= Len(features)
  /\ Arguments(kind, features[pos]).t # "raised"
  /\ r.world_id = world_id
  /\ r.lid = Arguments(kind, features[pos]).lid

C26_RowsStay ==
  \A k \in KindSet :
    /\ Keys(tables[k]) \subseteq Keys(tables'[k])
    /\ \A r \in tables[k] : r \in tables'[k] \/ C26_Upserted(k, r)

C26_AbsentIdsUntouched ==
  (pc = "features" /\ pos > Len(features)) =>
    \A r \in before :
      (\A i \in 1..Len(features) : features[i].id # Num(r.lid)) => r \in tables[kind]

C26_NothingRemoved == []C26_AbsentIdsUntouched /\ [][C26_RowsStay]_vars

\* a re-import of a file that names local id 2 only, into a table that held
\* local id 1 as well
C26_ReimportWithoutOne ==
  /\ pc = "features"
  /\ pos > Len(features)
  /\ features # <<>>
  /\ \A i \in 1..Len(features) : features[i].id = Num(2)
  /\ \E r \in before : r.lid = 2
  /\ \E r \in before : r.lid = 1 /\ r \in tables[kind]

\* C24, as claimed (SpecRace).  Whatever the interleaving of two calls of
\* create_world_entry for one name that has no row, the world table holds at
\* most one row of the name, neither call fails, and the two calls return the
\* same id.
C24_OneRowForBoth ==
  /\ \A n \in Names : Cardinality(SelectWorld(n)) <= 1
  /\ error # "UniqueViolation"
  /\ (world_id # 0 /\ peer.local.world_id # 0) => world_id = peer.local.world_id

\* C21 (SpecMain).  A connection is out of the pool exactly while
\* create_world_entry or an ingestor is inside its async with block: it is
\* back when the call has returned or raised.  A process that has ended has
\* closed the pool it created, or never created one because connect failed;
\* while the pool is not open no step reads or writes the store or acquires a
\* connection; and a pool that is open is closed later on.
C21_Inside == pc \in {"execute", "created", "features"}

C21_ScopedAcquisition ==
  /\ db_manager.acquired = IF C21_Inside THEN 1 ELSE 0
  /\ C21_Inside => db_manager.pool = "open"
  /\ main = "exited" =>
       \/ db_manager.pool = "closed"
       \/ db_manager.pool = "none" /\ error = "ConnectFailure"
  /\ db_manager.pool = "closed" => main = "exited"

C21_NoUseAfterClose ==
  db_manager.pool # "open" =>
    /\ store' = store
    /\ db_manager'.acquired = 0
    /\ pc' \in {pc, "idle"}

C21_PoolClosedAtExit ==
  /\ []C21_ScopedAcquisition
  /\ [][C21_NoUseAfterClose]_vars
  /\ (db_manager.pool = "open") ~> (db_manager.pool = "closed")

\* a process has ended after its import failed in the middle of an ingestor,
\* over a store that holds rows of earlier processes
C21_ExitedAfterFailure ==
  /\ main = "exited"
  /\ db_manager.pool = "closed"
  /\ pc = "raised"
  /\ error = "MissingLocalId"
  /\ tables["cells"] # {}
====
